---- MODULE Spec2Model ----
(***************************************************************************)
(* A state-machine model of presolve::HighsPostsolveStack                  *)
(* (src/presolve/HighsPostsolveStack.h): the reduction record, the packed  *)
(* value stack it pushes descriptors and nonzero lists on, the index maps  *)
(* from the reduced to the original index space, and the two replay entry  *)
(* points undo and undoUntil.                                              *)
(*                                                                         *)
(* Indices are 0-based as in the source; a C++ vector v is a TLA+ sequence *)
(* and v[i] is written At(v, i).                                           *)
(***************************************************************************)
EXTENDS Integers, Sequences, FiniteSets, TLC

(* Bounds of the model. *)
MaxRow == 2
MaxCol == 2
MaxReductions == 2
MaxNz == 2
MaxLiftRow == 3
MaxLiftCol == 3
MaxSplitBound == 6  \* highest column bound of a merged pair, in halves

VARIABLES
  reductionValues,  \* HighsDataStack: [data, position]
  reductions,       \* std::vector<ReductionType>
  origColIndex,     \* reduced column -> original column
  origRowIndex,     \* reduced row -> original row
  rowValues,        \* scratch buffer of (index, value) pairs
  colValues,        \* scratch buffer of (index, value) pairs
  origNumCol,
  origNumRow,
  solution,         \* the caller's HighsSolution, as the last replay left it
  basis,            \* the caller's HighsBasis, as the last replay left it
  rowDeleted,       \* presolver: reduced rows removed since the last compression
  colDeleted,       \* presolver: reduced columns removed since then
  rowOrigin,        \* history: the row each reduced row was at initialization
  colOrigin,        \* history: the same for the columns
  pushed,           \* history: what each recording operation pushed
  last,             \* history: the last call of undo / undoUntil
  NDEBUG,           \* the build: whether assert() is compiled to nothing
  failed            \* the assertion that ended the program, if one did

vars == <<reductionValues, reductions, origColIndex, origRowIndex, rowValues,
          colValues, origNumCol, origNumRow, solution, basis, rowDeleted,
          colDeleted, rowOrigin, colOrigin, pushed, last, NDEBUG, failed>>

-----------------------------------------------------------------------------
(* Vectors. *)

At(v, i) == v[i + 1]

SetAt(v, i, x) == [v EXCEPT ![i + 1] = x]

Resize(v, n, fill) == [j \in 1..n |-> IF j <= Len(v) THEN v[j] ELSE fill]

Min(a, b) == IF a <= b THEN a ELSE b

-----------------------------------------------------------------------------
(* The packed value stack (util/HighsDataStack.h).  A cell stands for the  *)
(* bytes of one pushed object: a descriptor, one (index, value) pair of a  *)
(* nonzero list, or the element count that closes a pushed list.           *)

NoReduction == [none |-> TRUE]

ValueCell(r) == [t |-> "value", r |-> r, n |-> 0, nz |-> <<0, 0>>]

NzCell(p) == [t |-> "nz", r |-> NoReduction, n |-> 0, nz |-> p]

SizeCell(n) == [t |-> "size", r |-> NoReduction, n |-> n, nz |-> <<0, 0>>]

\* The bytes below the bottom of the stack or above its top.
OutOfStack == [t |-> "out", r |-> NoReduction, n |-> 0, nz |-> <<0, 0>>]

CellAt(data, p) == IF p \in 1..Len(data) THEN data[p] ELSE OutOfStack

\* push(const T&): the object's bytes go on top of the data.
push(stack, r) == [stack EXCEPT !.data = Append(@, ValueCell(r))]

\* push(const std::vector<T>&): the elements in order, then their count.
pushVector(stack, v) ==
  [stack EXCEPT !.data = @ \o [j \in 1..Len(v) |-> NzCell(v[j])]
                           \o <<SizeCell(Len(v))>>]

\* resetPosition(): the read cursor goes to the top; no data is dropped.
resetPosition(stack) == [stack EXCEPT !.position = Len(stack.data)]

\* (mutant) the object read and everything above it is dropped.
popDiscarding(stack) ==
  [stack |-> [data |-> SubSeq(stack.data, 1, stack.position - 1),
              position |-> stack.position - 1],
   r     |-> CellAt(stack.data, stack.position).r]

\* pop(T&): the cursor moves down by one object, which is read in place.
pop(stack) ==
  [stack |-> [stack EXCEPT !.position = @ - 1],
   r     |-> CellAt(stack.data, stack.position).r]

\* pop(std::vector<T>&): the count is read first, then that many elements
\* below it, in the order they were pushed.
popVector(stack) ==
  LET n == CellAt(stack.data, stack.position).n
      p == stack.position - 1
  IN  [stack |-> [stack EXCEPT !.position = p - n],
       r     |-> [j \in 1..n |-> CellAt(stack.data, p - n + j).nz]]

-----------------------------------------------------------------------------
(* Index maps. *)

getOrigRowIndex(row) == At(origRowIndex, row)

getOrigColIndex(col) == At(origColIndex, col)

Identity(n) == [j \in 1..n |-> j - 1]

\* The solution and the basis belong to the caller of a replay.  They are
\* kept from a replay call until presolve goes on, when the caller has let
\* go of them.
NoSolution == [col_value |-> <<>>, row_value |-> <<>>,
               col_dual |-> <<>>, row_dual |-> <<>>]

NoBasis == [col_status |-> <<>>, row_status |-> <<>>]

NoReplay == [op |-> "none"]

NoFailure == [assertion |-> "none"]

\* No assertion has failed: a failed assert() aborts the program.
Running == failed = NoFailure

\* Doubles are counted as integers; three integers no computation of the
\* model reaches stand for -inf, +inf and NaN.
NonFinite == {-1000000, 1000000, 1000001}

\* std::isfinite
isfinite(x) == x \notin NonFinite

CallerLetsGo ==
  /\ solution' = NoSolution
  /\ basis' = NoBasis
  /\ last' = NoReplay

Init ==
  /\ reductionValues = [data |-> <<>>, position |-> 0]
  /\ reductions = <<>>
  /\ origColIndex = <<>>
  /\ origRowIndex = <<>>
  /\ rowValues = <<>>
  /\ colValues = <<>>
  /\ origNumCol = -1
  /\ origNumRow = -1
  /\ solution = NoSolution
  /\ basis = NoBasis
  /\ rowDeleted = {}
  /\ colDeleted = {}
  /\ rowOrigin = <<>>
  /\ colOrigin = <<>>
  /\ pushed = <<>>
  /\ last = NoReplay
  /\ NDEBUG \in BOOLEAN
  /\ failed = NoFailure

Initialized == origNumCol >= 0 /\ origNumRow >= 0

\* initializeIndexMaps(numRow, numCol): both maps become the identity and
\* the original dimensions are recorded.
initializeIndexMaps(numRow, numCol) ==
  /\ origNumRow' = numRow
  /\ origNumCol' = numCol
  /\ origRowIndex' = Identity(numRow)
  /\ origColIndex' = Identity(numCol)

InitializeUpTo(maxRow, maxCol) ==
  /\ Running
  /\ ~Initialized
  /\ \E numRow \in 0..maxRow, numCol \in 0..maxCol :
       /\ initializeIndexMaps(numRow, numCol)
       /\ rowOrigin' = Identity(numRow)
       /\ colOrigin' = Identity(numCol)
  /\ UNCHANGED <<reductionValues, reductions, rowValues, colValues, solution,
                 basis, rowDeleted, colDeleted, pushed, last, NDEBUG, failed>>

InitializeIndexMaps == InitializeUpTo(MaxRow, MaxCol)

\* (mutant) the map is not cut to the new length.
RECURSIVE CompressLoopWithoutResize(_, _, _, _)
CompressLoopWithoutResize(origIndex, newIndex, i, num) ==
  IF i = Len(newIndex)
  THEN origIndex
  ELSE IF At(newIndex, i) = -1
       THEN CompressLoopWithoutResize(origIndex, newIndex, i + 1, num - 1)
       ELSE CompressLoopWithoutResize(
              SetAt(origIndex, At(newIndex, i), At(origIndex, i)),
              newIndex, i + 1, num)

\* (mutant) a surviving entry is stored at its old slot less the number of
\* entries removed so far, and the new index is taken for the original one.
RECURSIVE CompressLoopStoringNewIndex(_, _, _, _)
CompressLoopStoringNewIndex(origIndex, newIndex, i, num) ==
  IF i = Len(newIndex)
  THEN Resize(origIndex, num, 0)
  ELSE IF At(newIndex, i) = -1
       THEN CompressLoopStoringNewIndex(origIndex, newIndex, i + 1, num - 1)
       ELSE CompressLoopStoringNewIndex(
              SetAt(origIndex, At(newIndex, i), At(newIndex, i)),
              newIndex, i + 1, num)

\* The loop of compressIndexMaps over one map: a removed entry (-1) lowers
\* the new length, a surviving entry i moves its original index to slot
\* newIndex[i]; the map is then cut to the new length.
RECURSIVE CompressLoop(_, _, _, _)
CompressLoop(origIndex, newIndex, i, num) ==
  IF i = Len(newIndex)
  THEN Resize(origIndex, num, 0)
  ELSE IF At(newIndex, i) = -1
       THEN CompressLoop(origIndex, newIndex, i + 1, num - 1)
       ELSE CompressLoop(SetAt(origIndex, At(newIndex, i), At(origIndex, i)),
                         newIndex, i + 1, num)

compressIndexMaps(newRowIndex, newColIndex) ==
  /\ origRowIndex' = CompressLoop(origRowIndex, newRowIndex, 0,
                                  Len(origRowIndex))
  /\ origColIndex' = CompressLoop(origColIndex, newColIndex, 0,
                                  Len(origColIndex))

\* The arguments the presolver passes: one entry per reduced index, -1 for
\* one removed since the last compression, the survivors numbered 0, 1, ...
\* in their order.
NewIndex(n, removed) ==
  [j \in 1..n |-> IF (j - 1) \in removed
                  THEN -1
                  ELSE Cardinality({k \in 0..(j - 2) : k \notin removed})]

\* The entries of a history that survive a compression, each at the reduced
\* index the arguments give it.
Survivors(origin, newIndex) ==
  LET kept == {j \in 1..Len(newIndex) : newIndex[j] # -1}
  IN  [k \in 1..Cardinality(kept) |->
         origin[CHOOSE j \in kept : newIndex[j] = k - 1]]

Compressed(newRowIndex, newColIndex) ==
  /\ compressIndexMaps(newRowIndex, newColIndex)
  /\ rowOrigin' = Survivors(rowOrigin, newRowIndex)
  /\ colOrigin' = Survivors(colOrigin, newColIndex)
  /\ rowDeleted' = {}
  /\ colDeleted' = {}
  /\ CallerLetsGo
  /\ UNCHANGED <<reductionValues, reductions, rowValues, colValues,
                 origNumCol, origNumRow, pushed, NDEBUG, failed>>

\* The presolver compresses once it has removed rows or columns.
CompressIndexMaps ==
  /\ Running
  /\ Initialized
  /\ rowDeleted \cup colDeleted # {}
  /\ Compressed(NewIndex(Len(origRowIndex), rowDeleted),
                NewIndex(Len(origColIndex), colDeleted))

\* Every argument pair compressIndexMaps accepts.
NewIndexVectors(n) == {NewIndex(n, removed) : removed \in SUBSET (0..(n - 1))}

-----------------------------------------------------------------------------
(* Recording operations.  Every one is called with reduced-space indices   *)
(* and, where it stores a row or a column, with a matrix slice: a finite   *)
(* sequence of (reduced index, value) nonzeros.                            *)

\* The rows and columns of the reduced problem the presolver still works on.
Rows == (0..(Len(origRowIndex) - 1)) \ rowDeleted

Cols == (0..(Len(origColIndex) - 1)) \ colDeleted

RECURSIVE Descending(_)
\* The indices of a set, from the highest down.
Descending(S) ==
  IF S = {} THEN <<>>
  ELSE LET m == CHOOSE x \in S : \A y \in S : y <= x
       IN  <<m>> \o Descending(S \ {m})

\* The slices a recording operation is called with: the first nonzeros, at
\* most MaxNz, of a row or column over the indices still in the problem.
Slices(S, first) ==
  LET d == Descending(S)
  IN  {[j \in 1..l |-> <<d[j], first + j - 1>>] : l \in {Min(Len(d), MaxNz)}}

\* (mutant) the nonzeros are stored under the reduced indices they came with.
TranslateKeepingReduced(vec, origIndex) ==
  [j \in 1..Len(vec) |-> <<vec[j][1], vec[j][2]>>]

\* for (nz : vec) values.emplace_back(origIndex[nz.index()], nz.value());
Translate(vec, origIndex) ==
  [j \in 1..Len(vec) |-> <<At(origIndex, vec[j][1]), vec[j][2]>>]

\* enum class ReductionType
ReductionType ==
  {"kFreeColSubstitution", "kDoubletonEquation", "kEqualityRowAddition",
   "kSingletonRow", "kFixedCol", "kRedundantRow", "kForcingRow",
   "kDuplicateRow", "kDuplicateColumn"}

\* numReductions()
NumReductions == Len(reductions)

CanRecord == Running /\ Initialized /\ Len(reductions) < MaxReductions

\* History of one recording: the tag appended, the descriptor and the lists
\* pushed (an empty list for one not pushed), and the height of the stack
\* once everything is pushed.
Pushed(tag, reduction, rowVals, colVals, stack, passed) ==
  [tag |-> tag, reduction |-> reduction, rowValues |-> rowVals,
   colValues |-> colVals, height |-> Len(stack.data), passed |-> passed]

\* History of the arguments of one recording: the rows and columns the
\* caller named, by argument, and the indices of the slices it gave, each as
\* the row or column of the original problem it was at initialization.
Passed(rowArgs, colArgs, rowVec, colVec) ==
  [rows |-> [f \in DOMAIN rowArgs |-> At(rowOrigin, rowArgs[f])],
   cols |-> [f \in DOMAIN colArgs |-> At(colOrigin, colArgs[f])],
   rowIndices |-> [j \in 1..Len(rowVec) |-> At(colOrigin, rowVec[j][1])],
   colIndices |-> [j \in 1..Len(colVec) |-> At(rowOrigin, colVec[j][1])]]

freeColSubstitution(row, col, rhs, colCost, rowType, rowVec, colVec) ==
  LET rowVals == Translate(rowVec, origColIndex)
      colVals == Translate(colVec, origRowIndex)
      reduction == [rhs |-> rhs, colCost |-> colCost,
                    row |-> At(origRowIndex, row),
                    col |-> At(origColIndex, col), rowType |-> rowType]
      stack == pushVector(pushVector(push(reductionValues, reduction),
                                     rowVals), colVals)
  IN  /\ rowValues' = rowVals
      /\ colValues' = colVals
      /\ reductionValues' = stack
      /\ reductions' = Append(reductions, "kFreeColSubstitution")
      /\ pushed' = Append(pushed, Pushed("kFreeColSubstitution", reduction,
                                         rowVals, colVals, stack,
                                         Passed([row |-> row], [col |-> col], rowVec, colVec)))

doubletonEquation(row, colSubst, col, coefSubst, coef, rhs, substLower, substUpper, oldLower, oldUpper, newLower, newUpper, substCost, colVec) ==
  LET colVals == Translate(colVec, origRowIndex)
      reduction == [coef |-> coef, coefSubst |-> coefSubst, rhs |-> rhs,
                    substLower |-> substLower, substUpper |-> substUpper,
                    substCost |-> substCost,
                    row |-> At(origRowIndex, row),
                    colSubst |-> At(origColIndex, colSubst),
                    col |-> At(origColIndex, col),
                    lowerTightened |-> (oldLower < newLower),
                    upperTightened |-> (oldUpper > newUpper)]
      stack == pushVector(push(reductionValues, reduction), colVals)
  IN  /\ colValues' = colVals
      /\ reductionValues' = stack
      /\ reductions' = Append(reductions, "kDoubletonEquation")
      /\ pushed' = Append(pushed, Pushed("kDoubletonEquation", reduction,
                                         <<>>, colVals, stack,
                                         Passed([row |-> row], [colSubst |-> colSubst, col |-> col], <<>>, colVec)))
      /\ UNCHANGED rowValues

equalityRowAddition(row, addedEqRow, eqRowScale) ==
  LET reduction == [row |-> At(origRowIndex, row),
                    addedEqRow |-> At(origRowIndex, addedEqRow),
                    eqRowScale |-> eqRowScale]
      stack == push(reductionValues, reduction)
  IN  /\ reductionValues' = stack
      /\ reductions' = Append(reductions, "kEqualityRowAddition")
      /\ pushed' = Append(pushed, Pushed("kEqualityRowAddition", reduction,
                                         <<>>, <<>>, stack,
                                         Passed([row |-> row, addedEqRow |-> addedEqRow], <<>>, <<>>, <<>>)))
      /\ UNCHANGED <<rowValues, colValues>>

singletonRow(row, col, coef, tightenedColLower, tightenedColUpper) ==
  LET reduction == [coef |-> coef, row |-> At(origRowIndex, row),
                    col |-> At(origColIndex, col),
                    colLowerTightened |-> tightenedColLower,
                    colUpperTightened |-> tightenedColUpper]
      stack == push(reductionValues, reduction)
  IN  /\ reductionValues' = stack
      /\ reductions' = Append(reductions, "kSingletonRow")
      /\ pushed' = Append(pushed, Pushed("kSingletonRow", reduction,
                                         <<>>, <<>>, stack,
                                         Passed([row |-> row], [col |-> col], <<>>, <<>>)))
      /\ UNCHANGED <<rowValues, colValues>>

\* The body shared by fixedColAtLower, fixedColAtUpper and removedFixedCol,
\* which differ in the fixType they store.
\* (mutant) fixValue is not asserted to be finite.
FixedColBodyUnchecked(col, fixValue, colCost, colVec, fixType) ==
  LET colVals == Translate(colVec, origRowIndex)
      reduction == [fixValue |-> fixValue, colCost |-> colCost,
                    col |-> At(origColIndex, col), fixType |-> fixType]
      stack == pushVector(push(reductionValues, reduction), colVals)
  IN  /\ colValues' = colVals
      /\ reductionValues' = stack
      /\ reductions' = Append(reductions, "kFixedCol")
      /\ pushed' = Append(pushed, Pushed("kFixedCol", reduction,
                                         <<>>, colVals, stack,
                                         Passed(<<>>, [col |-> col], <<>>,
                                                colVec)))
      /\ UNCHANGED <<rowValues, failed>>

\* assert(std::isfinite(fixValue)) is the first statement: where the build
\* keeps assertions, a fixValue that is not finite ends the program there.
FixedColBody(col, fixValue, colCost, colVec, fixType) ==
  IF ~NDEBUG /\ ~isfinite(fixValue)
  THEN /\ failed' = [assertion |-> "std::isfinite(fixValue)"]
       /\ UNCHANGED <<colValues, reductionValues, reductions, pushed,
                      rowValues>>
  ELSE LET colVals == Translate(colVec, origRowIndex)
           reduction == [fixValue |-> fixValue, colCost |-> colCost,
                         col |-> At(origColIndex, col), fixType |-> fixType]
           stack == pushVector(push(reductionValues, reduction), colVals)
       IN  /\ colValues' = colVals
           /\ reductionValues' = stack
           /\ reductions' = Append(reductions, "kFixedCol")
           /\ pushed' = Append(pushed, Pushed("kFixedCol", reduction,
                                              <<>>, colVals, stack,
                                              Passed(<<>>, [col |-> col],
                                                     <<>>, colVec)))
           /\ UNCHANGED <<rowValues, failed>>

fixedColAtLower(col, fixValue, colCost, colVec) ==
  FixedColBody(col, fixValue, colCost, colVec, "LOWER")

fixedColAtUpper(col, fixValue, colCost, colVec) ==
  FixedColBody(col, fixValue, colCost, colVec, "UPPER")

\* (mutant) the removed column is stored as fixed at its lower bound.
removedFixedColAtLower(col, fixValue, colCost, colVec) ==
  FixedColBody(col, fixValue, colCost, colVec, "LOWER")

removedFixedCol(col, fixValue, colCost, colVec) ==
  FixedColBody(col, fixValue, colCost, colVec, "NONBASIC")

\* (mutant) the row is stored under its original index.
redundantRowTranslated(row) ==
  LET reduction == [row |-> At(origRowIndex, row)]
      stack == push(reductionValues, reduction)
  IN  /\ reductionValues' = stack
      /\ reductions' = Append(reductions, "kRedundantRow")
      /\ pushed' = Append(pushed, Pushed("kRedundantRow", reduction,
                                         <<>>, <<>>, stack,
                                         Passed([row |-> row], <<>>, <<>>,
                                                <<>>)))
      /\ UNCHANGED <<rowValues, colValues>>

\* redundantRow stores its argument as it is given.
redundantRow(row) ==
  LET reduction == [row |-> row]
      stack == push(reductionValues, reduction)
  IN  /\ reductionValues' = stack
      /\ reductions' = Append(reductions, "kRedundantRow")
      /\ pushed' = Append(pushed, Pushed("kRedundantRow", reduction,
                                         <<>>, <<>>, stack,
                                         Passed([row |-> row], <<>>, <<>>, <<>>)))
      /\ UNCHANGED <<rowValues, colValues>>

forcingRow(row, rowVec, side, rowType) ==
  LET rowVals == Translate(rowVec, origColIndex)
      reduction == [side |-> side, row |-> At(origRowIndex, row),
                    rowType |-> rowType]
      stack == pushVector(push(reductionValues, reduction), rowVals)
  IN  /\ rowValues' = rowVals
      /\ reductionValues' = stack
      /\ reductions' = Append(reductions, "kForcingRow")
      /\ pushed' = Append(pushed, Pushed("kForcingRow", reduction,
                                         rowVals, <<>>, stack,
                                         Passed([row |-> row], <<>>, rowVec, <<>>)))
      /\ UNCHANGED colValues

duplicateRow(row, rowUpperTightened, rowLowerTightened, dupRow, duplicateRowScale) ==
  LET reduction == [duplicateRowScale |-> duplicateRowScale,
                    duplicateRow |-> At(origRowIndex, dupRow),
                    row |-> At(origRowIndex, row),
                    rowLowerTightened |-> rowLowerTightened,
                    rowUpperTightened |-> rowUpperTightened]
      stack == push(reductionValues, reduction)
  IN  /\ reductionValues' = stack
      /\ reductions' = Append(reductions, "kDuplicateRow")
      /\ pushed' = Append(pushed, Pushed("kDuplicateRow", reduction,
                                         <<>>, <<>>, stack,
                                         Passed([row |-> row, duplicateRow |-> dupRow], <<>>, <<>>, <<>>)))
      /\ UNCHANGED <<rowValues, colValues>>

duplicateColumn(colScale, colLower, colUpper, duplicateColLower, duplicateColUpper, col, duplicateCol, colIntegral, duplicateColIntegral) ==
  LET reduction == [colScale |-> colScale, colLower |-> colLower,
                    colUpper |-> colUpper,
                    duplicateColLower |-> duplicateColLower,
                    duplicateColUpper |-> duplicateColUpper,
                    col |-> At(origColIndex, col),
                    duplicateCol |-> At(origColIndex, duplicateCol),
                    colIntegral |-> colIntegral,
                    duplicateColIntegral |-> duplicateColIntegral]
      stack == push(reductionValues, reduction)
  IN  /\ reductionValues' = stack
      /\ reductions' = Append(reductions, "kDuplicateColumn")
      /\ pushed' = Append(pushed, Pushed("kDuplicateColumn", reduction,
                                         <<>>, <<>>, stack,
                                         Passed(<<>>, [col |-> col, duplicateCol |-> duplicateCol], <<>>, <<>>)))
      /\ UNCHANGED <<rowValues, colValues>>

\* What no recording operation touches.
RecordFrame ==
  /\ CallerLetsGo
  /\ UNCHANGED <<origColIndex, origRowIndex, origNumCol, origNumRow,
                 rowOrigin, colOrigin, NDEBUG, failed>>

\* The presolver removes the rows and columns a reduction eliminates.
Removes(rows, cols) ==
  /\ rowDeleted' = rowDeleted \cup rows
  /\ colDeleted' = colDeleted \cup cols

FreeColSubstitution ==
  /\ CanRecord
  /\ \E row \in Rows, col \in Cols, rowVec \in Slices(Cols, 1),
        colVec \in Slices(Rows, 5) :
       /\ freeColSubstitution(row, col, 6, 1, "Eq", rowVec, colVec)
       /\ Removes({row}, {col})
  /\ RecordFrame

DoubletonEquation ==
  /\ CanRecord
  /\ \E row \in Rows, colSubst \in Cols, col \in Cols,
        colVec \in Slices(Rows, 5) :
       /\ colSubst # col
       /\ doubletonEquation(row, colSubst, col, 1, 2, 5, 0, 4, 0, 3, 1, 3, 1,
                            colVec)
       /\ Removes({row}, {colSubst})
  /\ RecordFrame

EqualityRowAddition ==
  /\ CanRecord
  /\ \E row \in Rows, addedEqRow \in Rows :
       /\ row # addedEqRow
       /\ equalityRowAddition(row, addedEqRow, 2)
       /\ Removes({}, {})
  /\ RecordFrame

SingletonRow ==
  /\ CanRecord
  /\ \E row \in Rows, col \in Cols :
       /\ singletonRow(row, col, 2, FALSE, TRUE)
       /\ Removes({row}, {})
  /\ RecordFrame

FixedColAtLower ==
  /\ CanRecord
  /\ \E col \in Cols, colVec \in Slices(Rows, 5) :
       /\ fixedColAtLower(col, 0, 1, colVec)
       /\ Removes({}, {col})
  /\ RecordFrame

FixedColAtUpper ==
  /\ CanRecord
  /\ \E col \in Cols, colVec \in Slices(Rows, 5) :
       /\ fixedColAtUpper(col, 3, 1, colVec)
       /\ Removes({}, {col})
  /\ RecordFrame

RemovedFixedCol ==
  /\ CanRecord
  /\ \E col \in Cols, colVec \in Slices(Rows, 5) :
       /\ removedFixedCol(col, 1, 1, colVec)
       /\ Removes({}, {col})
  /\ RecordFrame

RedundantRow ==
  /\ CanRecord
  /\ \E row \in Rows : redundantRow(row) /\ Removes({row}, {})
  /\ RecordFrame

ForcingRow ==
  /\ CanRecord
  /\ \E row \in Rows, rowVec \in Slices(Cols, 1) :
       /\ forcingRow(row, rowVec, 4, "Leq")
       /\ Removes({row}, {})
  /\ RecordFrame

DuplicateRow ==
  /\ CanRecord
  /\ \E row \in Rows, dupRow \in Rows :
       /\ row # dupRow
       /\ duplicateRow(row, FALSE, TRUE, dupRow, 2)
       /\ Removes({row}, {})
  /\ RecordFrame

DuplicateColumn ==
  /\ CanRecord
  /\ \E col \in Cols, duplicateCol \in Cols :
       /\ col # duplicateCol
       /\ duplicateColumn(1, 0, 6, 0, 4, col, duplicateCol, TRUE, TRUE)
       /\ Removes({}, {duplicateCol})
  /\ RecordFrame

Recording ==
  \/ FreeColSubstitution
  \/ DoubletonEquation
  \/ EqualityRowAddition
  \/ SingletonRow
  \/ FixedColAtLower
  \/ FixedColAtUpper
  \/ RemovedFixedCol
  \/ RedundantRow
  \/ ForcingRow
  \/ DuplicateRow
  \/ DuplicateColumn

-----------------------------------------------------------------------------
(* The undo rules of the nine descriptors.  Their bodies are defined out   *)
(* of line (HighsPostsolveStack.cpp); each is modelled by the effect the   *)
(* design document gives it (4.D), on integer values.  Every rule works on *)
(* the solution and basis already expanded to the original index space.    *)

DualGiven(sol) == Len(sol.col_dual) = Len(sol.col_value)

\* x[i], and 0 for an index the array does not have.
Entry0(x, i) == IF (i + 1) \in DOMAIN x THEN x[i + 1] ELSE 0

RECURSIVE Dot(_, _, _)
\* Sum of value * x[index] over the first n nonzeros of a list.
Dot(values, x, n) ==
  IF n = 0 THEN 0
  ELSE values[n][2] * Entry0(x, values[n][1]) + Dot(values, x, n - 1)

\* The coefficient a list holds for an index (0 when it holds none).
CoefOf(values, index) ==
  IF \E j \in 1..Len(values) : values[j][1] = index
  THEN values[CHOOSE j \in 1..Len(values) : values[j][1] = index][2]
  ELSE 0

FreeColSubstitutionUndo(r, rowVals, colVals, sol, bas) ==
  LET a == CoefOf(rowVals, r.col)
      others == Dot(rowVals, sol.col_value, Len(rowVals))
                  - a * Entry0(sol.col_value, r.col)
      sol1 == IF a = 0 THEN sol
              ELSE [sol EXCEPT !.col_value =
                      SetAt(@, r.col, (r.rhs - others) \div a)]
  IN  [solution |-> sol1,
       basis |-> IF DualGiven(sol)
                 THEN [bas EXCEPT !.col_status = SetAt(@, r.col, "BASIC"),
                                  !.row_status = SetAt(@, r.row, "NONBASIC")]
                 ELSE bas]

DoubletonEquationUndo(r, colVals, sol, bas) ==
  [solution |-> [sol EXCEPT !.col_value =
                   SetAt(@, r.colSubst,
                         (r.rhs - r.coef * At(sol.col_value, r.col))
                           \div r.coefSubst)],
   basis |-> bas]

EqualityRowAdditionUndoAdding(r, sol, bas) ==
  [solution |-> IF DualGiven(sol)
                THEN [sol EXCEPT !.row_dual =
                        SetAt(@, r.addedEqRow,
                              At(sol.row_dual, r.addedEqRow)
                                + r.eqRowScale * At(sol.row_dual, r.row))]
                ELSE sol,
   basis |-> bas]

EqualityRowAdditionUndo(r, sol, bas) ==
  [solution |-> IF DualGiven(sol)
                THEN [sol EXCEPT !.row_dual =
                        SetAt(@, r.addedEqRow,
                              At(sol.row_dual, r.addedEqRow)
                                - r.eqRowScale * At(sol.row_dual, r.row))]
                ELSE sol,
   basis |-> bas]

SingletonRowUndo(r, sol, bas) ==
  [solution |-> [sol EXCEPT !.row_value =
                   SetAt(@, r.row, r.coef * At(sol.col_value, r.col))],
   basis |-> IF DualGiven(sol)
             THEN [bas EXCEPT !.row_status = SetAt(@, r.row, "BASIC")]
             ELSE bas]

FixedColUndo(r, colVals, sol, bas) ==
  LET sol1 == [sol EXCEPT !.col_value = SetAt(@, r.col, r.fixValue)]
  IN  IF DualGiven(sol)
      THEN [solution |-> [sol1 EXCEPT !.col_dual =
                            SetAt(@, r.col,
                                  r.colCost - Dot(colVals, sol.row_dual,
                                                  Len(colVals)))],
            basis |-> [bas EXCEPT !.col_status = SetAt(@, r.col, r.fixType)]]
      ELSE [solution |-> sol1, basis |-> bas]

RedundantRowUndo(r, sol, bas) ==
  IF DualGiven(sol)
  THEN [solution |-> [sol EXCEPT !.row_dual = SetAt(@, r.row, 0)],
        basis |-> [bas EXCEPT !.row_status = SetAt(@, r.row, "BASIC")]]
  ELSE [solution |-> sol, basis |-> bas]

ForcingRowUndo(r, rowVals, sol, bas) ==
  [solution |-> [sol EXCEPT !.row_value = SetAt(@, r.row, r.side)],
   basis |-> IF DualGiven(sol)
             THEN [bas EXCEPT !.row_status = SetAt(@, r.row, "NONBASIC")]
             ELSE bas]

DuplicateRowUndo(r, sol, bas) ==
  [solution |-> [sol EXCEPT !.row_value =
                   SetAt(@, r.row,
                         r.duplicateRowScale
                           * At(sol.row_value, r.duplicateRow))],
   basis |-> bas]

\* Primal values and bounds are counted in halves, so that a column can
\* take a value that is not integral.
Integral(x) == x % 2 = 0

\* The splits of a merged value v that DuplicateColumn::undo may write: x
\* for col and y for duplicateCol, within their bounds, with
\* x + colScale * y = v, and integral where the flags demand it.
DuplicateColumnSplits(r, v) ==
  {s \in (r.colLower..r.colUpper)
           \X (r.duplicateColLower..r.duplicateColUpper) :
     /\ s[1] + r.colScale * s[2] = v
     /\ r.colIntegral => Integral(s[1])
     /\ r.duplicateColIntegral => Integral(s[2])}

\* Where no split exists the merged value is outside what the two columns
\* can make: the duplicate column is clamped to its bounds and column col
\* takes the rest, whatever its bounds.
DuplicateColumnClamped(r, v) ==
  LET rest == (v - r.colLower) \div r.colScale
      y == IF rest > r.duplicateColUpper THEN r.duplicateColUpper
           ELSE IF rest < r.duplicateColLower THEN r.duplicateColLower
           ELSE rest
  IN  <<v - r.colScale * y, y>>

\* (mutant) column col is pushed to a bound first, its upper bound before
\* its lower.
DuplicateColumnSplitPreferringCol(r, v) ==
  LET splits == DuplicateColumnSplits(r, v)
      atUpper == {s \in splits : s[1] = r.colUpper}
      atLower == {s \in splits : s[1] = r.colLower}
  IN  IF atUpper # {} THEN CHOOSE s \in atUpper : TRUE
      ELSE IF atLower # {} THEN CHOOSE s \in atLower : TRUE
      ELSE IF splits # {}
           THEN CHOOSE s \in splits : \A t \in splits : s[2] <= t[2]
           ELSE DuplicateColumnClamped(r, v)

\* The split chosen: the duplicate column at a bound where a split has it
\* there, its lower bound before its upper; else, with both columns inside
\* their bounds, the split with column col nearest to its lower bound.
DuplicateColumnSplit(r, v) ==
  LET splits == DuplicateColumnSplits(r, v)
      atLower == {s \in splits : s[2] = r.duplicateColLower}
      atUpper == {s \in splits : s[2] = r.duplicateColUpper}
  IN  IF atLower # {} THEN CHOOSE s \in atLower : TRUE
      ELSE IF atUpper # {} THEN CHOOSE s \in atUpper : TRUE
      ELSE IF splits # {}
           THEN CHOOSE s \in splits : \A t \in splits : s[1] <= t[1]
           ELSE DuplicateColumnClamped(r, v)

DuplicateColumnUndo(r, sol, bas, feastol) ==
  LET split == DuplicateColumnSplit(r, At(sol.col_value, r.col))
  IN  [solution |-> [sol EXCEPT !.col_value =
                       SetAt(SetAt(@, r.duplicateCol, split[2]), r.col,
                             split[1])],
       basis |-> bas]

-----------------------------------------------------------------------------
(* Replay: undo and undoUntil. *)

\* The loop that lifts one array in place, from the highest reduced index
\* down: v[origIndex[i]] = v[i].
RECURSIVE LiftLoop(_, _, _)
LiftLoop(v, origIndex, i) ==
  IF i < 0 THEN v
  ELSE LiftLoop(SetAt(v, At(origIndex, i), At(v, i)), origIndex, i - 1)

\* (mutant) the lifting loop run from the lowest reduced index up.
RECURSIVE LiftLoopUp(_, _, _)
LiftLoopUp(v, origIndex, i) ==
  IF i >= Len(origIndex) THEN v
  ELSE LiftLoopUp(SetAt(v, At(origIndex, i), At(v, i)), origIndex, i + 1)

ExpandAscending(v, origIndex, origNum, fill) ==
  LiftLoopUp(Resize(v, origNum, fill), origIndex, 0)

\* v.resize(origNum), then the lifting loop.
Expand(v, origIndex, origNum, fill) ==
  LiftLoop(Resize(v, origNum, fill), origIndex, Len(origIndex) - 1)

\* assert(origIndex[i] >= i) in every pass of a lifting loop.
AssertsHold(origIndex) ==
  \A i \in 0..(Len(origIndex) - 1) : At(origIndex, i) >= i

\* (mutant) the column duals expanded with the row map.
ExpandSolutionRowsForCols(sol, bas, dualPostSolve) ==
  LET primal == [sol EXCEPT
                   !.col_value = Expand(@, origColIndex, origNumCol, 0),
                   !.row_value = Expand(@, origRowIndex, origNumRow, 0)]
  IN  IF dualPostSolve
      THEN [solution |->
              [primal EXCEPT
                 !.col_dual = Expand(@, origRowIndex, origNumRow, 0),
                 !.row_dual = Expand(@, origRowIndex, origNumRow, 0)],
            basis |->
              [col_status |-> Expand(bas.col_status, origColIndex,
                                     origNumCol, "LOWER"),
               row_status |-> Expand(bas.row_status, origRowIndex,
                                     origNumRow, "LOWER")]]
      ELSE [solution |-> primal, basis |-> bas]

\* The expansion of the solution and the basis to the original index space.
ExpandSolution(sol, bas, dualPostSolve) ==
  LET primal == [sol EXCEPT
                   !.col_value = Expand(@, origColIndex, origNumCol, 0),
                   !.row_value = Expand(@, origRowIndex, origNumRow, 0)]
  IN  IF dualPostSolve
      THEN [solution |->
              [primal EXCEPT
                 !.col_dual = Expand(@, origColIndex, origNumCol, 0),
                 !.row_dual = Expand(@, origRowIndex, origNumRow, 0)],
            basis |->
              [col_status |-> Expand(bas.col_status, origColIndex,
                                     origNumCol, "LOWER"),
               row_status |-> Expand(bas.row_status, origRowIndex,
                                     origNumRow, "LOWER")]]
      ELSE [solution |-> primal, basis |-> bas]

\* The pops of one pass of the replay loop, in the order the switch makes
\* them; each gives the stack it leaves and what it read.

\* (mutant) the row list popped before the column list.
PopRowColReduction(stack) ==
  LET w == popVector(stack)
      c == popVector(w.stack)
      d == pop(c.stack)
  IN  [stack |-> d.stack, reduction |-> d.r, rowValues |-> w.r,
       colValues |-> c.r]

\* kFreeColSubstitution: pop(colValues); pop(rowValues); pop(reduction).
PopColRowReduction(stack) ==
  LET c == popVector(stack)
      w == popVector(c.stack)
      d == pop(w.stack)
  IN  [stack |-> d.stack, reduction |-> d.r, rowValues |-> w.r,
       colValues |-> c.r]

\* kDoubletonEquation, kFixedCol: pop(colValues); pop(reduction).
PopColReduction(stack) ==
  LET c == popVector(stack)
      d == pop(c.stack)
  IN  [stack |-> d.stack, reduction |-> d.r, colValues |-> c.r]

\* kForcingRow: pop(rowValues); pop(reduction).
PopRowReduction(stack) ==
  LET w == popVector(stack)
      d == pop(w.stack)
  IN  [stack |-> d.stack, reduction |-> d.r, rowValues |-> w.r]

\* The other kinds: pop(reduction).
PopReduction(stack) ==
  LET d == pop(stack)
  IN  [stack |-> d.stack, reduction |-> d.r]

\* The state after the undo rule of record i has run: calls keeps what the
\* rule was handed and the part of the stack the pass read.  Bytes that are
\* no descriptor have no rule to model: the solution is left as it is.
Called(st, i, p, rowVals, colVals, out) ==
  [stack |-> p.stack, rowValues |-> st.rowValues,
   colValues |-> st.colValues,
   solution |-> IF p.reduction = NoReduction THEN st.solution
                ELSE out.solution,
   basis |-> IF p.reduction = NoReduction THEN st.basis ELSE out.basis,
   calls |-> Append(st.calls,
                    [index |-> i, tag |-> At(reductions, i),
                     reduction |-> p.reduction, rowValues |-> rowVals,
                     colValues |-> colVals, from |-> st.stack.position,
                     to |-> p.stack.position])]

\* One pass of the replay loop: the switch on reductions[i].
Dispatch(st, i, feastol) ==
  LET tag == At(reductions, i) IN
  CASE tag = "kFreeColSubstitution" ->
         LET p == PopColRowReduction(st.stack)
             s1 == [st EXCEPT !.colValues = p.colValues,
                              !.rowValues = p.rowValues]
         IN  Called(s1, i, p, p.rowValues, p.colValues,
                    FreeColSubstitutionUndo(p.reduction, p.rowValues,
                                            p.colValues, st.solution,
                                            st.basis))
    [] tag = "kDoubletonEquation" ->
         LET p == PopColReduction(st.stack)
             s1 == [st EXCEPT !.colValues = p.colValues]
         IN  Called(s1, i, p, <<>>, p.colValues,
                    DoubletonEquationUndo(p.reduction, p.colValues,
                                          st.solution, st.basis))
    [] tag = "kEqualityRowAddition" ->
         LET p == PopReduction(st.stack)
         IN  Called(st, i, p, <<>>, <<>>,
                    EqualityRowAdditionUndo(p.reduction, st.solution,
                                            st.basis))
    [] tag = "kSingletonRow" ->
         LET p == PopReduction(st.stack)
         IN  Called(st, i, p, <<>>, <<>>,
                    SingletonRowUndo(p.reduction, st.solution, st.basis))
    [] tag = "kFixedCol" ->
         LET p == PopColReduction(st.stack)
             s1 == [st EXCEPT !.colValues = p.colValues]
         IN  Called(s1, i, p, <<>>, p.colValues,
                    FixedColUndo(p.reduction, p.colValues, st.solution,
                                 st.basis))
    [] tag = "kRedundantRow" ->
         LET p == PopReduction(st.stack)
         IN  Called(st, i, p, <<>>, <<>>,
                    RedundantRowUndo(p.reduction, st.solution, st.basis))
    [] tag = "kForcingRow" ->
         LET p == PopRowReduction(st.stack)
             s1 == [st EXCEPT !.rowValues = p.rowValues]
         IN  Called(s1, i, p, p.rowValues, <<>>,
                    ForcingRowUndo(p.reduction, p.rowValues, st.solution,
                                   st.basis))
    [] tag = "kDuplicateRow" ->
         LET p == PopReduction(st.stack)
         IN  Called(st, i, p, <<>>, <<>>,
                    DuplicateRowUndo(p.reduction, st.solution, st.basis))
    [] tag = "kDuplicateColumn" ->
         LET p == PopReduction(st.stack)
         IN  Called(st, i, p, <<>>, <<>>,
                    DuplicateColumnUndo(p.reduction, st.solution, st.basis,
                                        feastol))

\* (mutant) the loop stops before record 0.
RECURSIVE UndoLoopSkippingFirst(_, _, _)
UndoLoopSkippingFirst(st, i, feastol) ==
  IF i > 0
  THEN UndoLoopSkippingFirst(Dispatch(st, i, feastol), i - 1, feastol)
  ELSE st

\* for (int i = reductions.size() - 1; i >= 0; --i)
RECURSIVE UndoLoop(_, _, _)
UndoLoop(st, i, feastol) ==
  IF i >= 0 THEN UndoLoop(Dispatch(st, i, feastol), i - 1, feastol) ELSE st

\* (mutant) the loop runs past the checkpoint to record 0.
RECURSIVE UndoUntilLoopToBottom(_, _, _, _)
UndoUntilLoopToBottom(st, i, feastol, numReductions) ==
  IF i >= 0
  THEN UndoUntilLoopToBottom(Dispatch(st, i, feastol), i - 1, feastol,
                             numReductions)
  ELSE st

\* (mutant) the loop stops one record before the checkpoint.
RECURSIVE UndoUntilLoopExclusive(_, _, _, _)
UndoUntilLoopExclusive(st, i, feastol, numReductions) ==
  IF i > numReductions
  THEN UndoUntilLoopExclusive(Dispatch(st, i, feastol), i - 1, feastol,
                              numReductions)
  ELSE st

\* for (int i = reductions.size() - 1; i >= numReductions; --i)
RECURSIVE UndoUntilLoop(_, _, _, _)
UndoUntilLoop(st, i, feastol, numReductions) ==
  IF i >= numReductions
  THEN UndoUntilLoop(Dispatch(st, i, feastol), i - 1, feastol, numReductions)
  ELSE st

\* The state a replay starts its loop in, or returns in when it rejects.
Entry(stack, sol, bas) ==
  [stack |-> stack, rowValues |-> rowValues, colValues |-> colValues,
   solution |-> sol, basis |-> bas, calls |-> <<>>]

\* (mutant) only the column count is compared.
ShapeMatchesColumnsOnly(sol) == Len(sol.col_value) = Len(origColIndex)

\* (mutant) only the row count is compared.
ShapeMatchesRowsOnly(sol) == Len(sol.row_value) = Len(origRowIndex)

\* The two size guards.
ShapeMatches(sol) ==
  /\ Len(sol.col_value) = Len(origColIndex)
  /\ Len(sol.row_value) = Len(origRowIndex)

\* (mutant) dual postsolve whenever column duals are given.
LiftedWhenDualsGiven(sol, bas) ==
  ExpandSolution(sol, bas, Len(sol.col_dual) > 0)

\* The expanded solution and basis the replay loop starts from.
Lifted(sol, bas) ==
  ExpandSolution(sol, bas, Len(sol.col_dual) = Len(sol.col_value))

\* undo(solution, basis, feastol): the state it returns in.
undo(sol, bas, feastol) ==
  LET stack == resetPosition(reductionValues) IN
  IF ~ShapeMatches(sol)
  THEN Entry(stack, sol, bas)
  ELSE LET lifted == Lifted(sol, bas)
       IN  UndoLoop(Entry(stack, lifted.solution, lifted.basis),
                    Len(reductions) - 1, feastol)

\* (mutant) the read cursor is left where the last replay stopped.
undoUntilWithoutReset(sol, bas, feastol, numReductions) ==
  IF ~ShapeMatches(sol)
  THEN Entry(reductionValues, sol, bas)
  ELSE LET lifted == Lifted(sol, bas)
       IN  UndoUntilLoop(Entry(reductionValues, lifted.solution,
                               lifted.basis),
                         Len(reductions) - 1, feastol, numReductions)

\* undoUntil(solution, basis, feastol, numReductions): the state it returns
\* in.
undoUntil(sol, bas, feastol, numReductions) ==
  LET stack == resetPosition(reductionValues) IN
  IF ~ShapeMatches(sol)
  THEN Entry(stack, sol, bas)
  ELSE LET lifted == Lifted(sol, bas)
       IN  UndoUntilLoop(Entry(stack, lifted.solution, lifted.basis),
                         Len(reductions) - 1, feastol, numReductions)

\* The solutions and bases a caller hands to a replay: nc column and nr row
\* entries, every slot holding a value of its own, with or without duals
\* and statuses.
Status == <<"BASIC", "LOWER", "UPPER", "ZERO", "NONBASIC">>

CallerSolution(nc, nr, dual) ==
  [col_value |-> [j \in 1..nc |-> 10 + j],
   row_value |-> [j \in 1..nr |-> 20 + j],
   col_dual |-> IF dual THEN [j \in 1..nc |-> 30 + j] ELSE <<>>,
   row_dual |-> IF dual THEN [j \in 1..nr |-> 40 + j] ELSE <<>>]

CallerBasis(nc, nr, dual) ==
  [col_status |-> IF dual THEN [j \in 1..nc |-> Status[(j % 5) + 1]]
                  ELSE <<>>,
   row_status |-> IF dual THEN [j \in 1..nr |-> Status[((j + 2) % 5) + 1]]
                  ELSE <<>>]

\* What a caller comes with: the reduced dimensions with and without duals
\* and statuses, or one column or one row too many.
CallerInputs ==
  LET nc == Len(origColIndex)
      nr == Len(origRowIndex)
  IN  {<<nc, nr, TRUE>>, <<nc, nr, FALSE>>, <<nc + 1, nr, TRUE>>,
       <<nc, nr + 1, TRUE>>}

FeasTols == {0}

\* (mutant) the replayed tags are dropped from the record.
ReplayedDroppingTags(op, numReductions, sol, bas, st) ==
  /\ reductionValues' = st.stack
  /\ rowValues' = st.rowValues
  /\ colValues' = st.colValues
  /\ solution' = st.solution
  /\ basis' = st.basis
  /\ reductions' = SubSeq(reductions, 1, Len(reductions) - Len(st.calls))
  /\ last' = [op |-> op, numReductions |-> numReductions,
              accepted |-> ShapeMatches(sol),
              solution |-> sol, basis |-> bas,
              lifted |-> IF ShapeMatches(sol) THEN Lifted(sol, bas)
                         ELSE [solution |-> sol, basis |-> bas],
              calls |-> st.calls]
  /\ UNCHANGED <<origColIndex, origRowIndex, origNumCol, origNumRow,
                 rowDeleted, colDeleted, rowOrigin, colOrigin, pushed,
                 NDEBUG, failed>>

\* The effect of a replay call on the state, with its history.
Replayed(op, numReductions, sol, bas, st) ==
  /\ reductionValues' = st.stack
  /\ rowValues' = st.rowValues
  /\ colValues' = st.colValues
  /\ solution' = st.solution
  /\ basis' = st.basis
  /\ last' = [op |-> op, numReductions |-> numReductions,
              accepted |-> ShapeMatches(sol),
              solution |-> sol, basis |-> bas,
              lifted |-> IF ShapeMatches(sol) THEN Lifted(sol, bas)
                         ELSE [solution |-> sol, basis |-> bas],
              calls |-> st.calls]
  /\ UNCHANGED <<reductions, origColIndex, origRowIndex, origNumCol,
                 origNumRow, rowDeleted, colDeleted, rowOrigin, colOrigin,
                 pushed, NDEBUG, failed>>

Undo ==
  /\ Running
  /\ Initialized
  /\ \E in \in CallerInputs, feastol \in FeasTols :
       LET sol == CallerSolution(in[1], in[2], in[3])
           bas == CallerBasis(in[1], in[2], in[3])
       IN  Replayed("undo", 0, sol, bas, undo(sol, bas, feastol))

UndoUntil ==
  /\ Running
  /\ Initialized
  /\ \E in \in CallerInputs, feastol \in FeasTols,
        numReductions \in 0..Len(reductions) :
       LET sol == CallerSolution(in[1], in[2], in[3])
           bas == CallerBasis(in[1], in[2], in[3])
       IN  Replayed("undoUntil", numReductions, sol, bas,
                    undoUntil(sol, bas, feastol, numReductions))


Next ==
  \/ InitializeIndexMaps
  \/ CompressIndexMaps
  \/ Recording
  \/ Undo
  \/ UndoUntil

Spec == Init /\ [][Next]_vars

-----------------------------------------------------------------------------
(* The index maps and the expansion on their own: problems of up to        *)
(* MaxLiftRow rows and MaxLiftCol columns, compressed with every argument  *)
(* compressIndexMaps accepts, and replayed with no reduction recorded.     *)

InitializeLargeIndexMaps == InitializeUpTo(MaxLiftRow, MaxLiftCol)

CompressAnyIndexMaps ==
  /\ Running
  /\ Initialized
  /\ \E newRowIndex \in NewIndexVectors(Len(origRowIndex)),
        newColIndex \in NewIndexVectors(Len(origColIndex)) :
       /\ <<newRowIndex, newColIndex>> #
            <<Identity(Len(origRowIndex)), Identity(Len(origColIndex))>>
       /\ Compressed(newRowIndex, newColIndex)

LiftNext ==
  \/ InitializeLargeIndexMaps
  \/ CompressAnyIndexMaps
  \/ Undo
  \/ UndoUntil

LiftSpec == Init /\ [][LiftNext]_vars

-----------------------------------------------------------------------------
(* Redundant rows on their own: problems of up to MaxLiftRow rows and      *)
(* MaxLiftCol columns from which the presolver removes redundant rows,     *)
(* compressing when it has removed some, and which are replayed.           *)

RowNext ==
  \/ InitializeLargeIndexMaps
  \/ RedundantRow
  \/ CompressIndexMaps
  \/ Undo
  \/ UndoUntil

RowSpec == Init /\ [][RowNext]_vars

-----------------------------------------------------------------------------
(* Duplicate columns on their own: a problem of two columns that the       *)
(* presolver merges, for every pair of bounds up to MaxSplitBound, both    *)
(* signs of the scale and every choice of the integrality flags, replayed  *)
(* on every merged value the reduced problem can hand back.                *)

InitializeColumns == InitializeUpTo(0, MaxCol)

\* The bounds a column of the pair can have: integral ones for an integer
\* column.
SplitBounds(integral) ==
  {b \in (0..1) \X (0..MaxSplitBound) :
     /\ b[1] <= b[2]
     /\ integral => Integral(b[1]) /\ Integral(b[2])}

MergeDuplicateColumn ==
  /\ CanRecord
  /\ reductions = <<>>
  /\ \E col \in Cols, duplicateCol \in Cols, colScale \in {-1, 1},
        colIntegral \in BOOLEAN, duplicateColIntegral \in BOOLEAN :
       \E colBounds \in SplitBounds(colIntegral),
          duplicateColBounds \in SplitBounds(duplicateColIntegral) :
         /\ col # duplicateCol
         /\ duplicateColumn(colScale, colBounds[1], colBounds[2],
                            duplicateColBounds[1], duplicateColBounds[2],
                            col, duplicateCol, colIntegral,
                            duplicateColIntegral)
         /\ Removes({}, {duplicateCol})
  /\ RecordFrame

\* undo on a solution of the compressed reduced problem whose columns hold
\* the merged value v.
UndoMerged ==
  /\ Running
  /\ Initialized
  /\ colDeleted = {}
  /\ \E v \in (0 - MaxSplitBound)..(2 * MaxSplitBound), feastol \in FeasTols :
       LET nc == Len(origColIndex)
           nr == Len(origRowIndex)
           sol == [CallerSolution(nc, nr, TRUE) EXCEPT
                     !.col_value = [j \in 1..nc |-> v]]
           bas == CallerBasis(nc, nr, TRUE)
       IN  Replayed("undo", 0, sol, bas, undo(sol, bas, feastol))

SplitNext ==
  \/ InitializeColumns
  \/ MergeDuplicateColumn
  \/ CompressIndexMaps
  \/ UndoMerged

SplitSpec == Init /\ [][SplitNext]_vars

-----------------------------------------------------------------------------
(* Fixed columns on their own: the presolver fixes columns at values that  *)
(* are finite or not, through each of the three recorders, in a build that *)
(* keeps assertions and in one that does not.                              *)

FixValues == {0, 3} \cup NonFinite

\* The presolver goes on after the recorder returned; it does not when the
\* assertion ended the program.
AfterFixing(col) ==
  IF failed' = NoFailure
  THEN /\ Removes({}, {col})
       /\ RecordFrame
  ELSE UNCHANGED <<origColIndex, origRowIndex, origNumCol, origNumRow,
                   solution, basis, rowDeleted, colDeleted, rowOrigin,
                   colOrigin, last, NDEBUG>>

FixColAtLower ==
  /\ CanRecord
  /\ \E col \in Cols, fixValue \in FixValues, colVec \in Slices(Rows, 5) :
       /\ fixedColAtLower(col, fixValue, 1, colVec)
       /\ AfterFixing(col)

FixColAtUpper ==
  /\ CanRecord
  /\ \E col \in Cols, fixValue \in FixValues, colVec \in Slices(Rows, 5) :
       /\ fixedColAtUpper(col, fixValue, 1, colVec)
       /\ AfterFixing(col)

RemoveFixedCol ==
  /\ CanRecord
  /\ \E col \in Cols, fixValue \in FixValues, colVec \in Slices(Rows, 5) :
       /\ removedFixedCol(col, fixValue, 1, colVec)
       /\ AfterFixing(col)

FixNext ==
  \/ InitializeIndexMaps
  \/ FixColAtLower
  \/ FixColAtUpper
  \/ RemoveFixedCol
  \/ CompressIndexMaps
  \/ Undo

FixSpec == Init /\ [][FixNext]_vars

-----------------------------------------------------------------------------
(* The choice of dual postsolve on its own: problems of up to MaxLiftRow   *)
(* rows and MaxLiftCol columns, replayed with no reduction recorded by     *)
(* callers whose column duals are as many as the reduced columns, fewer,   *)
(* more, or none.                                                          *)

\* A solution of the reduced dimensions with numDual column duals; the row
\* duals are given with them.
SolutionWithDuals(numDual) ==
  [col_value |-> [j \in 1..Len(origColIndex) |-> 10 + j],
   row_value |-> [j \in 1..Len(origRowIndex) |-> 20 + j],
   col_dual |-> [j \in 1..numDual |-> 30 + j],
   row_dual |-> IF numDual > 0 THEN [j \in 1..Len(origRowIndex) |-> 40 + j]
                ELSE <<>>]

BasisWithDuals(numDual) ==
  [col_status |-> [j \in 1..numDual |-> Status[(j % 5) + 1]],
   row_status |-> IF numDual > 0
                  THEN [j \in 1..Len(origRowIndex) |->
                          Status[((j + 2) % 5) + 1]]
                  ELSE <<>>]

UndoWithDuals ==
  /\ Running
  /\ Initialized
  /\ \E numDual \in 0..(MaxLiftCol + 1), feastol \in FeasTols :
       LET sol == SolutionWithDuals(numDual)
           bas == BasisWithDuals(numDual)
       IN  Replayed("undo", 0, sol, bas, undo(sol, bas, feastol))

UndoUntilWithDuals ==
  /\ Running
  /\ Initialized
  /\ \E numDual \in 0..(MaxLiftCol + 1), feastol \in FeasTols :
       LET sol == SolutionWithDuals(numDual)
           bas == BasisWithDuals(numDual)
       IN  Replayed("undoUntil", 0, sol, bas,
                    undoUntil(sol, bas, feastol, 0))

ModeNext ==
  \/ InitializeLargeIndexMaps
  \/ CompressAnyIndexMaps
  \/ UndoWithDuals
  \/ UndoUntilWithDuals

ModeSpec == Init /\ [][ModeNext]_vars

-----------------------------------------------------------------------------
(* Replays of replayed solutions: as above, and the caller may call undo   *)
(* or undoUntil again on the solution and the basis the last call left.    *)

UndoAgain ==
  /\ Running
  /\ Initialized
  /\ last.op # "none"
  /\ \E feastol \in FeasTols :
       Replayed("undo", 0, solution, basis, undo(solution, basis, feastol))

UndoUntilAgain ==
  /\ Running
  /\ Initialized
  /\ last.op # "none"
  /\ \E feastol \in FeasTols :
       Replayed("undoUntil", 0, solution, basis,
                undoUntil(solution, basis, feastol, 0))

AgainNext ==
  \/ InitializeLargeIndexMaps
  \/ CompressAnyIndexMaps
  \/ UndoWithDuals
  \/ UndoUntilWithDuals
  \/ UndoAgain
  \/ UndoUntilAgain

AgainSpec == Init /\ [][AgainNext]_vars

-----------------------------------------------------------------------------
(* Properties. *)

ReplayDone == last.op # "none"

\* The caller's solution had the reduced dimensions.
Accepted ==
  /\ ReplayDone
  /\ Len(last.solution.col_value) = Len(origColIndex)
  /\ Len(last.solution.row_value) = Len(origRowIndex)

Rejected ==
  /\ ReplayDone
  /\ \/ Len(last.solution.col_value) # Len(origColIndex)
     \/ Len(last.solution.row_value) # Len(origRowIndex)

\* The height of the stack right after the first k recordings.
HeightAfter(k) == IF k = 0 THEN 0 ELSE pushed[k].height

IsPrefix(a, b) == Len(a) <= Len(b) /\ SubSeq(b, 1, Len(a)) = a

\* C1: LIFO payload integrity.  In a replay, the undo rule of record i is
\* handed exactly the descriptor and the row and column lists that the i-th
\* recording pushed, element for element and in their order, and the pass
\* reads the part of the stack that recording pushed and nothing else.
LifoPayloadIntegrity ==
  ReplayDone =>
    \A j \in 1..Len(last.calls) :
      LET c == last.calls[j]
          rec == pushed[c.index + 1]
      IN  /\ c.tag = rec.tag
          /\ c.reduction = rec.reduction
          /\ c.rowValues = rec.rowValues
          /\ c.colValues = rec.colValues
          /\ c.from = rec.height
          /\ c.to = HeightAfter(c.index)

\* A full replay of a FreeColSubstitution record with two row and two
\* column nonzeros under a FixedCol record with a column nonzero.
LifoPayloadWitness ==
  /\ ReplayDone
  /\ last.op = "undo"
  /\ Len(last.calls) = 2
  /\ last.calls[1].tag = "kFixedCol"
  /\ Len(last.calls[1].colValues) = 1
  /\ last.calls[2].tag = "kFreeColSubstitution"
  /\ Len(last.calls[2].rowValues) = 2
  /\ Len(last.calls[2].colValues) = 2
  /\ last.calls[2].rowValues # last.calls[2].colValues

\* C2: checkpointed replay.  undoUntil with checkpoint k on a correctly
\* shaped solution runs the undo rules of records n-1, n-2, ..., k in that
\* order, each once, and none below k; with k = n nothing is popped.
CheckpointedReplay ==
  (Accepted /\ last.op = "undoUntil") =>
    LET n == Len(reductions)
        k == last.numReductions
    IN  /\ Len(last.calls) = n - k
        /\ \A j \in 1..Len(last.calls) : last.calls[j].index = n - j
        /\ k = n => reductionValues.position = Len(reductionValues.data)

\* undoUntil(..., 1) on a record of two reductions has replayed record 1.
CheckpointedReplayWitness ==
  /\ Accepted
  /\ last.op = "undoUntil"
  /\ Len(reductions) = 2
  /\ last.numReductions = 1
  /\ Len(last.calls) = 1
  /\ last.calls[1].index = 1

\* The solutions and bases the two entry points are compared on: what a
\* caller comes with, and the solution and basis a replay has left.
ComparedInputs ==
  {<<CallerSolution(in[1], in[2], in[3]), CallerBasis(in[1], in[2], in[3])>> :
     in \in CallerInputs} \cup {<<solution, basis>>}

\* C3: undo(solution, basis, feastol) and undoUntil(solution, basis,
\* feastol, 0) started in the same state return in the same state: the same
\* solution and basis, read cursor and scratch buffers, and the same rules
\* called; also when the shape does not match.
EntryPointsAgree ==
  Initialized =>
    \A in \in ComparedInputs, feastol \in FeasTols :
      undo(in[1], in[2], feastol) = undoUntil(in[1], in[2], feastol, 0)

\* undoUntil(..., 0) has replayed two reductions and left the solution undo
\* leaves on the same input.
EntryPointsAgreeWitness ==
  /\ Accepted
  /\ last.op = "undoUntil"
  /\ last.numReductions = 0
  /\ Len(last.calls) = 2
  /\ solution # last.lifted.solution
  /\ \E feastol \in FeasTols :
       undo(last.solution, last.basis, feastol).solution = solution

\* C4: a replay called with a col_value or a row_value of another length
\* than the reduced column or row count returns with the solution and the
\* basis as they were given, no undo rule called and nothing popped.
ShapeMismatchRejected ==
  Rejected =>
    /\ solution = last.solution
    /\ basis = last.basis
    /\ last.calls = <<>>
    /\ reductionValues.position = Len(reductionValues.data)

\* undoUntil rejected a solution with one row too many, with duals and
\* statuses, on a record of two reductions.
ShapeMismatchWitness ==
  /\ Rejected
  /\ last.op = "undoUntil"
  /\ Len(last.solution.col_value) = Len(origColIndex)
  /\ Len(last.solution.row_value) = Len(origRowIndex) + 1
  /\ Len(last.solution.col_dual) > 0
  /\ Len(reductions) = 2

\* The invariants of an index map over a problem of origNum rows or columns.
WellFormed(origIndex, origNum) ==
  /\ \A i \in 0..(Len(origIndex) - 1) :
       /\ At(origIndex, i) >= i
       /\ At(origIndex, i) < origNum
  /\ \A i \in 0..(Len(origIndex) - 2) :
       At(origIndex, i) < At(origIndex, i + 1)

\* Slot origIndex[i] of the expanded array holds what slot i of the given
\* array held, for every reduced index i the caller gave a value at.
LiftedBy(expanded, given, origIndex) ==
  \A i \in 0..(Len(origIndex) - 1) :
    i < Len(given) => At(expanded, At(origIndex, i)) = At(given, i)

\* C5: with well-formed index maps, after the expansion step of a replay and
\* before any undo rule, col_value[origColIndex[i]] holds the col_value[i]
\* the caller gave, likewise row_value and, in dual postsolve, the duals
\* and the statuses; the assertions of the lifting loops hold.
LiftCorrect ==
  (Accepted /\ WellFormed(origColIndex, origNumCol)
            /\ WellFormed(origRowIndex, origNumRow)) =>
    /\ AssertsHold(origColIndex)
    /\ AssertsHold(origRowIndex)
    /\ LiftedBy(last.lifted.solution.col_value, last.solution.col_value,
                origColIndex)
    /\ LiftedBy(last.lifted.solution.row_value, last.solution.row_value,
                origRowIndex)
    /\ Len(last.solution.col_dual) = Len(last.solution.col_value) =>
         /\ LiftedBy(last.lifted.solution.col_dual, last.solution.col_dual,
                     origColIndex)
         /\ LiftedBy(last.lifted.solution.row_dual, last.solution.row_dual,
                     origRowIndex)
         /\ LiftedBy(last.lifted.basis.col_status, last.basis.col_status,
                     origColIndex)
         /\ LiftedBy(last.lifted.basis.row_status, last.basis.row_status,
                     origRowIndex)

\* A dual postsolve over columns 1 and 2 of three: the value of reduced
\* column 0 goes to slot 1, which held the value of reduced column 1.
LiftWitness ==
  /\ Accepted
  /\ origColIndex = <<1, 2>>
  /\ origRowIndex = <<0, 2>>
  /\ Len(last.solution.col_dual) = 2
  /\ last.lifted.solution.col_value = <<11, 11, 12>>

\* C6: once initialized, both index maps are strictly increasing, map no
\* reduced index below itself and stay below the original dimension; no
\* step makes a map longer or changes the original dimensions.
IndexMapInvariant ==
  /\ [](Initialized => /\ WellFormed(origColIndex, origNumCol)
                       /\ WellFormed(origRowIndex, origNumRow))
  /\ [][Initialized => /\ Len(origColIndex') <= Len(origColIndex)
                       /\ Len(origRowIndex') <= Len(origRowIndex)
                       /\ origNumCol' = origNumCol
                       /\ origNumRow' = origNumRow]_vars

\* Columns 0 and 2 of three and row 1 of two are left after compression.
IndexMapWitness ==
  /\ origNumCol = 3
  /\ origNumRow = 2
  /\ origColIndex = <<0, 2>>
  /\ origRowIndex = <<1>>

\* What compressIndexMaps makes of a map for an argument.
CompressionKeepsTargets(origIndex, newIndex) ==
  LET after == CompressLoop(origIndex, newIndex, 0, Len(origIndex))
  IN  /\ Len(after) = Cardinality({i \in 1..Len(newIndex) :
                                    newIndex[i] # -1})
      /\ \A i \in 0..(Len(newIndex) - 1) :
           At(newIndex, i) # -1 =>
             At(after, At(newIndex, i)) = At(origIndex, i)

\* C7: compressIndexMaps keeps the original index of every surviving
\* reduced index and leaves as many entries as survive; after any number of
\* compressions every reduced index maps to the original index it had at
\* initializeIndexMaps.
CompressPreservesTargets ==
  /\ \A i \in 0..(Len(origColIndex) - 1) :
       getOrigColIndex(i) = At(colOrigin, i)
  /\ \A i \in 0..(Len(origRowIndex) - 1) :
       getOrigRowIndex(i) = At(rowOrigin, i)
  /\ Len(colOrigin) = Len(origColIndex)
  /\ Len(rowOrigin) = Len(origRowIndex)
  /\ \A newColIndex \in NewIndexVectors(Len(origColIndex)) :
       CompressionKeepsTargets(origColIndex, newColIndex)
  /\ \A newRowIndex \in NewIndexVectors(Len(origRowIndex)) :
       CompressionKeepsTargets(origRowIndex, newRowIndex)

\* Column 2 of three has become reduced column 0, row 1 reduced row 0.
CompressWitness ==
  /\ origNumCol = 3
  /\ origColIndex = <<2>>
  /\ colOrigin = <<2>>
  /\ origRowIndex = <<1, 2>>
  /\ rowOrigin = <<1, 2>>

\* A replay of an empty record under identity index maps on a solution of
\* the original dimensions.
IdentityReplay ==
  /\ ReplayDone
  /\ reductions = <<>>
  /\ origColIndex = Identity(origNumCol)
  /\ origRowIndex = Identity(origNumRow)
  /\ Len(last.solution.col_value) = origNumCol
  /\ Len(last.solution.row_value) = origNumRow

\* The caller gave duals and statuses for every row and column.
DualsGiven ==
  /\ Len(last.solution.col_dual) = origNumCol
  /\ Len(last.solution.row_dual) = origNumRow
  /\ Len(last.basis.col_status) = origNumCol
  /\ Len(last.basis.row_status) = origNumRow

\* C8 as stated: with no reduction recorded and identity index maps, a
\* replay on a solution of the original dimensions leaves every entry and
\* every length of the solution and the basis as given.
IdentityPresolveAsStated ==
  IdentityReplay =>
    /\ solution = last.solution
    /\ basis = last.basis

\* C8: with no reduction recorded and identity index maps, a replay on a
\* solution of the original dimensions leaves every entry and every length
\* of the solution and the basis as given, provided col_dual is not as long
\* as col_value or the duals and statuses have the original dimensions too.
IdentityPresolve ==
  (/\ IdentityReplay
   /\ \/ Len(last.solution.col_dual) # Len(last.solution.col_value)
      \/ DualsGiven) =>
    /\ solution = last.solution
    /\ basis = last.basis

\* undo on a dual solution of a problem of two rows and three columns that
\* presolve left as it was.
IdentityPresolveWitness ==
  /\ ReplayDone
  /\ last.op = "undo"
  /\ reductions = <<>>
  /\ origNumCol = 3
  /\ origNumRow = 2
  /\ origColIndex = Identity(3)
  /\ origRowIndex = Identity(2)
  /\ Len(last.solution.col_value) = 3
  /\ Len(last.solution.row_value) = 2
  /\ Len(solution.col_dual) = 3
  /\ Len(basis.row_status) = 2

\* C9: a replay, accepted or rejected, leaves the tags, the data of the
\* value stack, the index maps and the original dimensions as they are; a
\* recording leaves the index maps and the original dimensions as they
\* are and only appends to the tags and to the data.
ReplayReadsOnly ==
  [][/\ ReplayDone' =>
          /\ reductions' = reductions
          /\ reductionValues'.data = reductionValues.data
          /\ origColIndex' = origColIndex
          /\ origRowIndex' = origRowIndex
          /\ origNumCol' = origNumCol
          /\ origNumRow' = origNumRow
     /\ Len(pushed') > Len(pushed) =>
          /\ IsPrefix(reductions, reductions')
          /\ Len(reductions') = Len(reductions) + 1
          /\ IsPrefix(reductionValues.data, reductionValues'.data)
          /\ origColIndex' = origColIndex
          /\ origRowIndex' = origRowIndex
          /\ origNumCol' = origNumCol
          /\ origNumRow' = origNumRow]_vars

\* A checkpointed replay has read the second of two records and the tags
\* and the data are all there.
ReplayReadsOnlyWitness ==
  /\ Accepted
  /\ Len(last.calls) = 1
  /\ Len(reductions) = 2
  /\ Len(pushed) = 2
  /\ reductionValues.position < Len(reductionValues.data)
  /\ Len(reductionValues.data) = pushed[2].height

\* C10: an accepted undo ends with the read cursor at the bottom of the
\* stack; an accepted undoUntil with checkpoint k ends with it at the
\* height the stack had after the k-th recording.
StackBalance ==
  Accepted =>
    /\ reductionValues.position >= 0
    /\ last.op = "undo" => reductionValues.position = 0
    /\ last.op = "undoUntil" =>
         reductionValues.position = HeightAfter(last.numReductions)

\* undoUntil(..., 1) over two records with lists has stopped at the height
\* of the first.
StackBalanceWitness ==
  /\ Accepted
  /\ last.op = "undoUntil"
  /\ last.numReductions = 1
  /\ Len(reductions) = 2
  /\ reductionValues.position = pushed[1].height
  /\ pushed[1].height > 1
  /\ pushed[2].height > pushed[1].height + 1

\* What a replay hands to the rule of one record agrees between two passes.
SamePops(callsA, callsB) ==
  \A a \in 1..Len(callsA), b \in 1..Len(callsB) :
    callsA[a].index = callsB[b].index => callsA[a] = callsB[b]

\* C11: a replay can be restarted.  In the state a replay has left, with no
\* recording since, a second replay on an equal copy of the same reduced
\* solution and basis pops the same descriptors and payloads from the same
\* places as the first for every record both pass over, whatever the two
\* checkpoints, and with the same checkpoint it returns the same solution
\* and basis.
ReplayRestartable ==
  ReplayDone =>
    \A feastol \in FeasTols :
      /\ \A k \in 0..Len(reductions) :
           LET again == undoUntil(last.solution, last.basis, feastol, k)
           IN  /\ SamePops(again.calls, last.calls)
               /\ k = last.numReductions =>
                    /\ again.calls = last.calls
                    /\ again.solution = solution
                    /\ again.basis = basis
                    /\ again.stack = reductionValues
      /\ LET again == undo(last.solution, last.basis, feastol)
         IN  /\ SamePops(again.calls, last.calls)
             /\ last.numReductions = 0 =>
                  /\ again.calls = last.calls
                  /\ again.solution = solution
                  /\ again.basis = basis
                  /\ again.stack = reductionValues

\* A full replay of two records has left the cursor at the bottom, and a
\* second one from there pops both records again.
ReplayRestartableWitness ==
  /\ Accepted
  /\ last.op = "undo"
  /\ Len(last.calls) = 2
  /\ reductionValues.position = 0
  /\ Len(reductionValues.data) > 2
  /\ solution # last.lifted.solution
  /\ \E feastol \in FeasTols :
       Len(undoUntil(last.solution, last.basis, feastol, 0).calls) = 2

\* The rule of a call was handed what the recording of its record pushed.
ObtainsPushed(c) ==
  /\ c.reduction = pushed[c.index + 1].reduction
  /\ c.rowValues = pushed[c.index + 1].rowValues
  /\ c.colValues = pushed[c.index + 1].colValues

\* C12 as stated: once a replay has popped the payload of a reduction, a
\* later undo or undoUntil issued without re-recording does not obtain the
\* descriptor and the nonzero lists of that reduction.
SingleUsePayloads ==
  ReplayDone =>
    \A feastol \in FeasTols, k \in 0..Len(reductions) :
      LET later == undoUntil(last.solution, last.basis, feastol, k)
      IN  \A a \in 1..Len(later.calls), b \in 1..Len(last.calls) :
            later.calls[a].index = last.calls[b].index =>
              ~ObtainsPushed(later.calls[a])

\* C12: once a replay has popped the payload of a reduction the payload is
\* still on the stack: a later undo or undoUntil issued without re-recording
\* on a correctly shaped solution passes over every record down to its
\* checkpoint and obtains the descriptor and the nonzero lists of each,
\* those the earlier replay popped included.
PayloadsStay ==
  Accepted =>
    /\ Len(reductionValues.data) = HeightAfter(Len(pushed))
    /\ Len(reductions) = Len(pushed)
    /\ \A feastol \in FeasTols, k \in 0..Len(reductions) :
         LET later == undoUntil(last.solution, last.basis, feastol, k)
         IN  /\ Len(later.calls) = Len(reductions) - k
             /\ \A a \in 1..Len(later.calls) : ObtainsPushed(later.calls[a])

\* A replay has popped the second of two records, which has a column list,
\* and a full replay after it is handed that record's payload again.
PayloadsStayWitness ==
  /\ Accepted
  /\ last.op = "undoUntil"
  /\ last.numReductions = 1
  /\ Len(last.calls) = 1
  /\ Len(pushed) = 2
  /\ Len(pushed[2].colValues) >= 1
  /\ reductionValues.position < Len(reductionValues.data)
  /\ \E feastol \in FeasTols :
       LET later == undo(last.solution, last.basis, feastol)
       IN  /\ Len(later.calls) = 2
           /\ later.calls[1].index = 1
           /\ ObtainsPushed(later.calls[1])

\* The indices of a nonzero list, in its order.
Indices(values) == [j \in 1..Len(values) |-> values[j][1]]

\* The row and column indices of a descriptor and of two lists are those of
\* the original problem that the history of a recording names, and lie in
\* the original dimensions.
OriginalSpace(passed, reduction, rowVals, colVals) ==
  /\ \A f \in DOMAIN passed.rows :
       /\ reduction[f] = passed.rows[f]
       /\ reduction[f] \in 0..(origNumRow - 1)
  /\ \A f \in DOMAIN passed.cols :
       /\ reduction[f] = passed.cols[f]
       /\ reduction[f] \in 0..(origNumCol - 1)
  /\ Indices(rowVals) = passed.rowIndices
  /\ \A j \in 1..Len(rowVals) : rowVals[j][1] \in 0..(origNumCol - 1)
  /\ Indices(colVals) = passed.colIndices
  /\ \A j \in 1..Len(colVals) : colVals[j][1] \in 0..(origNumRow - 1)

\* C13: for every kind but RedundantRow, every row and column index in a
\* pushed descriptor and every index of a pushed nonzero list is the
\* original-space index of the reduced index the caller passed, and after
\* any compressions and recordings that follow, the indices a replay hands
\* to the undo rule of that record are still those, within the original
\* dimensions.
OriginalIndicesSurvive ==
  /\ \A i \in 1..Len(pushed) :
       pushed[i].tag # "kRedundantRow" =>
         OriginalSpace(pushed[i].passed, pushed[i].reduction,
                       pushed[i].rowValues, pushed[i].colValues)
  /\ ReplayDone =>
       \A j \in 1..Len(last.calls) :
         LET c == last.calls[j]
         IN  c.tag # "kRedundantRow" =>
               OriginalSpace(pushed[c.index + 1].passed, c.reduction,
                             c.rowValues, c.colValues)

\* A ForcingRow recorded on reduced row 0 and reduced column 0 after row 0
\* and column 0 of the problem were compressed away, replayed after another
\* compression: its rule is handed row 1 and column 1.
OriginalIndicesWitness ==
  /\ Accepted
  /\ Len(origRowIndex) = 0
  /\ Len(last.calls) = 2
  /\ last.calls[1].tag = "kForcingRow"
  /\ last.calls[1].reduction.row = 1
  /\ Indices(last.calls[1].rowValues) = <<1>>
  /\ last.calls[2].tag = "kFreeColSubstitution"
  /\ last.calls[2].reduction.row = 0
  /\ last.calls[2].reduction.col = 0

\* The original rows the arguments of a recording named.
RowsNamed(passed) ==
  {passed.rows[f] : f \in DOMAIN passed.rows}
    \cup {passed.colIndices[j] : j \in 1..Len(passed.colIndices)}

\* The caller gave the optimum of the compressed reduced problem, with a
\* dual and a status for each of its rows and columns.
ReducedOptimumGiven ==
  /\ Accepted
  /\ rowDeleted = {}
  /\ colDeleted = {}
  /\ Len(last.solution.col_dual) = Len(origColIndex)
  /\ Len(last.solution.row_dual) = Len(origRowIndex)
  /\ Len(last.basis.col_status) = Len(origColIndex)
  /\ Len(last.basis.row_status) = Len(origRowIndex)

\* C14, for the rows the reductions leave alone: a row that is still in the
\* reduced problem and that no recorded reduction names has the same value,
\* dual and status in the original optimum as in the reduced one, and undo
\* on the reduced optimum gives them back at the original index of the row.
RoundTripKeepsRows ==
  (ReducedOptimumGiven /\ last.op = "undo") =>
    \A i \in 0..(Len(rowOrigin) - 1) :
      (\A j \in 1..Len(pushed) :
         At(rowOrigin, i) \notin RowsNamed(pushed[j].passed))
        => /\ At(solution.row_value, At(rowOrigin, i))
                = At(last.solution.row_value, i)
           /\ At(solution.row_dual, At(rowOrigin, i))
                = At(last.solution.row_dual, i)
           /\ At(basis.row_status, At(rowOrigin, i))
                = At(last.basis.row_status, i)

\* undo has replayed a record of one DuplicateColumn reduction on the
\* compressed reduced problem.
SplitDone ==
  /\ Accepted
  /\ last.op = "undo"
  /\ colDeleted = {}
  /\ Len(last.calls) = 1
  /\ last.calls[1].tag = "kDuplicateColumn"

\* x for col and y for duplicateCol split the merged value v as the
\* descriptor r demands.
SplitsValue(r, v, x, y) ==
  /\ x + r.colScale * y = v
  /\ r.colLower <= x /\ x <= r.colUpper
  /\ r.duplicateColLower <= y /\ y <= r.duplicateColUpper
  /\ r.colIntegral => x % 2 = 0
  /\ r.duplicateColIntegral => y % 2 = 0

\* The values col and duplicateCol can take, counted in halves.
SplitGrid == (0 - MaxSplitBound)..(2 * MaxSplitBound)

EqualityRowAdditionUndone ==
  /\ Accepted
  /\ Len(last.solution.col_dual) = Len(last.solution.col_value)
  /\ Len(last.calls) = 1
  /\ last.calls[1].tag = "kEqualityRowAddition"

\* C16: in dual mode, if before the undo of an EqualityRowAddition record
\* the dual of the modified row is d and the dual of the added equality row
\* is e, then after it row_dual[addedEqRow] = e - eqRowScale * d, while
\* row_dual[row], every other dual, every basis status and every primal
\* value are as before.
EqualityRowAdditionUndoCorrect ==
  EqualityRowAdditionUndone =>
    LET r == last.calls[1].reduction
        before == last.lifted
        d == At(before.solution.row_dual, r.row)
        e == At(before.solution.row_dual, r.addedEqRow)
    IN  /\ At(solution.row_dual, r.addedEqRow) = e - r.eqRowScale * d
        /\ \A i \in 0..(origNumRow - 1) :
             i # r.addedEqRow =>
               At(solution.row_dual, i) = At(before.solution.row_dual, i)
        /\ Len(solution.row_dual) = origNumRow
        /\ solution.col_dual = before.solution.col_dual
        /\ solution.col_value = before.solution.col_value
        /\ solution.row_value = before.solution.row_value
        /\ basis = before.basis

\* The record is undone after a column was removed and the maps
\* compressed, on duals the caller gave, and the dual of the added row has
\* moved.
EqualityRowAdditionUndoWitness ==
  /\ EqualityRowAdditionUndone
  /\ Len(last.solution.row_dual) = Len(origRowIndex)
  /\ Len(origColIndex) < origNumCol
  /\ LET r == last.calls[1].reduction
     IN  /\ At(last.lifted.solution.row_dual, r.row) # 0
         /\ At(solution.row_dual, r.addedEqRow)
              # At(last.lifted.solution.row_dual, r.addedEqRow)

\* The FixedCol descriptors on the value stack.
FixedColsOn(stack) ==
  {stack.data[p].r : p \in {q \in 1..Len(stack.data) :
                              /\ stack.data[q].t = "value"
                              /\ "fixType" \in DOMAIN stack.data[q].r}}

\* The finiteness assertion of a recorder has just ended the program.
FixValueRefused == failed = NoFailure /\ failed' # NoFailure

RedundantRowRecorded ==
  /\ Len(reductions') = Len(reductions) + 1
  /\ reductions'[Len(reductions')] = "kRedundantRow"

\* A replay in dual mode has undone one record, a RedundantRow.
RedundantRowUndone ==
  /\ Accepted
  /\ Len(last.solution.col_dual) = Len(last.solution.col_value)
  /\ Len(last.calls) = 1
  /\ last.calls[1].tag = "kRedundantRow"

\* The replay has written nowhere but at the slot the descriptor holds,
\* whichever row of the original problem was removed.
RedundantRowUndoneAtStored ==
  RedundantRowUndone =>
    LET stored == last.calls[1].reduction.row
        before == last.lifted
    IN  /\ \A i \in 0..(origNumRow - 1) :
             i # stored =>
               /\ At(solution.row_dual, i) = At(before.solution.row_dual, i)
               /\ At(basis.row_status, i) = At(before.basis.row_status, i)
               /\ At(solution.row_value, i)
                    = At(before.solution.row_value, i)
        /\ solution.col_value = before.solution.col_value
        /\ solution.col_dual = before.solution.col_dual
        /\ basis.col_status = before.basis.col_status

\* C18: redundantRow(row) stores the reduced index row itself in the
\* descriptor, not origRowIndex[row]; at replay the descriptor comes back as
\* stored and the undo addresses the slot row of the original problem, so
\* that when origRowIndex[row] # row the slot of the removed row is left as
\* the expansion made it.
RedundantRowKeepsReducedIndex ==
  [][/\ RedundantRowRecorded =>
          LET top == CellAt(reductionValues'.data,
                            Len(reductionValues'.data)).r
              rec == pushed'[Len(pushed')]
          IN  /\ rowDeleted' \ rowDeleted = {top.row}
              /\ rec.passed.rows.row = At(rowOrigin, top.row)
              /\ rec.passed.rows.row = At(origRowIndex, top.row)
     /\ RedundantRowUndoneAtStored'
     /\ RedundantRowUndone' =>
          LET call == last'.calls[1]
              rec == pushed'[call.index + 1]
          IN  /\ call.reduction = rec.reduction
              /\ rec.passed.rows.row # call.reduction.row =>
                   /\ At(solution'.row_dual, rec.passed.rows.row)
                        = At(last'.lifted.solution.row_dual,
                             rec.passed.rows.row)
                   /\ At(basis'.row_status, rec.passed.rows.row)
                        = At(last'.lifted.basis.row_status,
                             rec.passed.rows.row)]_vars

\* A row whose original index is not its reduced index was removed, and the
\* replay of its record has changed the slot of the reduced index.
RedundantRowIndexWitness ==
  /\ RedundantRowUndone
  /\ LET call == last.calls[1]
         orig == pushed[call.index + 1].passed.rows.row
     IN  /\ orig # call.reduction.row
         /\ Len(last.solution.row_dual) = Len(origRowIndex)
         /\ At(solution.row_dual, call.reduction.row)
              # At(last.lifted.solution.row_dual, call.reduction.row)
         /\ At(solution.row_dual, orig)
              = At(last.lifted.solution.row_dual, orig)

\* The caller of the last replay gave as many column duals as column values.
DualsMatchValues ==
  Len(last.solution.col_dual) = Len(last.solution.col_value)

\* C19: a replay that passes the shape guard is in dual postsolve exactly
\* when the caller gave as many column duals as column values: then
\* col_dual and col_status have origNumCol entries, row_dual and row_status
\* origNumRow, each lifted through its index map; otherwise the duals and
\* the statuses are what the caller gave.  With no reduced column and no
\* column dual the replay is in dual postsolve.
DualPostsolveSelected ==
  (Accepted /\ reductions = <<>>) =>
    /\ DualsMatchValues =>
         /\ Len(solution.col_dual) = origNumCol
         /\ Len(basis.col_status) = origNumCol
         /\ Len(solution.row_dual) = origNumRow
         /\ Len(basis.row_status) = origNumRow
         /\ LiftedBy(solution.col_dual, last.solution.col_dual, origColIndex)
         /\ LiftedBy(basis.col_status, last.basis.col_status, origColIndex)
         /\ LiftedBy(solution.row_dual, last.solution.row_dual, origRowIndex)
         /\ LiftedBy(basis.row_status, last.basis.row_status, origRowIndex)
    /\ ~DualsMatchValues =>
         /\ solution.col_dual = last.solution.col_dual
         /\ solution.row_dual = last.solution.row_dual
         /\ basis = last.basis
    /\ (last.solution.col_value = <<>> /\ last.solution.col_dual = <<>>) =>
         /\ Len(solution.col_dual) = origNumCol
         /\ Len(solution.row_dual) = origNumRow
         /\ Len(basis.col_status) = origNumCol
         /\ Len(basis.row_status) = origNumRow

\* A caller with rows but no column left and no duals has had duals and
\* statuses of the original dimensions made.
DualPostsolveWitness ==
  /\ Accepted
  /\ reductions = <<>>
  /\ last.solution.col_value = <<>>
  /\ last.solution.col_dual = <<>>
  /\ last.solution.row_dual = <<>>
  /\ last.solution.row_value # <<>>
  /\ origNumCol > 0
  /\ Len(solution.col_dual) = origNumCol
  /\ Len(solution.row_dual) = origNumRow

\* The step is a replay of the solution and the basis that an earlier replay
\* expanded, with nothing recorded and well-formed index maps.
ExpandedReplayedAgain ==
  /\ Accepted
  /\ reductions = <<>>
  /\ WellFormed(origColIndex, origNumCol)
  /\ WellFormed(origRowIndex, origNumRow)
  /\ last'.op # "none"
  /\ last'.solution = solution
  /\ last'.basis = basis

\* C20: with an empty record and well-formed index maps, undo or undoUntil
\* called again on a solution and a basis that an earlier call expanded to
\* the original dimensions moves no value: either a guard rejects the call,
\* a row or a column having been removed, or both maps are the identity.
PreambleIdempotent ==
  [][ExpandedReplayedAgain =>
       /\ solution' = solution
       /\ basis' = basis
       /\ \/ /\ Len(solution.col_value) # Len(origColIndex)
                \/ Len(solution.row_value) # Len(origRowIndex)
             /\ Len(origColIndex) < origNumCol
                \/ Len(origRowIndex) < origNumRow
          \/ /\ Len(solution.col_value) = Len(origColIndex)
             /\ Len(solution.row_value) = Len(origRowIndex)
             /\ origColIndex = Identity(origNumCol)
             /\ origRowIndex = Identity(origNumRow)]_vars

\* undoUntil was called on a solution of the original dimensions, which are
\* not the reduced ones, in which an earlier replay had moved a column value
\* and made duals, and has left it as it was.
PreambleIdempotentWitness ==
  /\ last.op = "undoUntil"
  /\ reductions = <<>>
  /\ Len(last.solution.col_value) = origNumCol
  /\ Len(last.solution.row_value) = origNumRow
  /\ Len(origColIndex) < origNumCol
  /\ Len(origColIndex) > 0
  /\ At(origColIndex, 0) > 0
  /\ Len(last.solution.col_dual) = origNumCol
  /\ solution = last.solution
  /\ basis = last.basis

\* The step appends the tag to the record, which grows by one, on top of a
\* descriptor the step has pushed on the value stack above all that was
\* there.
Appends(tag) ==
  /\ reductions' = Append(reductions, tag)
  /\ NumReductions' = NumReductions + 1
  /\ Len(reductionValues'.data) > Len(reductionValues.data)
  /\ SubSeq(reductionValues'.data, 1, Len(reductionValues.data))
       = reductionValues.data
  /\ reductionValues'.data[Len(reductionValues.data) + 1].t = "value"
  /\ pushed'[Len(pushed')].tag = tag
  /\ pushed'[Len(pushed')].reduction
       = reductionValues'.data[Len(reductionValues.data) + 1].r

\* The step appends the FixedCol tag on top of a descriptor of that fixType.
AppendsFixedCol(fixType) ==
  /\ Appends("kFixedCol")
  /\ reductionValues'.data[Len(reductionValues.data) + 1].r.fixType = fixType

\* C21: every recording operation that returns appends exactly one tag, of
\* its own kind, to the end of the record, on top of the descriptor and the
\* payloads it pushed, so that numReductions() grows by one with every call
\* and is the number of recording calls made; fixedColAtLower,
\* fixedColAtUpper and removedFixedCol append the same FixedCol tag and
\* store LOWER, UPPER and NONBASIC; every tag in the record is one of the
\* nine kinds of ReductionType, and nothing but a recording changes the
\* record.
OneTagPerRecording ==
  [][/\ FreeColSubstitution => Appends("kFreeColSubstitution")
     /\ DoubletonEquation => Appends("kDoubletonEquation")
     /\ EqualityRowAddition => Appends("kEqualityRowAddition")
     /\ SingletonRow => Appends("kSingletonRow")
     /\ FixedColAtLower => AppendsFixedCol("LOWER")
     /\ FixedColAtUpper => AppendsFixedCol("UPPER")
     /\ RemovedFixedCol => AppendsFixedCol("NONBASIC")
     /\ RedundantRow => Appends("kRedundantRow")
     /\ ForcingRow => Appends("kForcingRow")
     /\ DuplicateRow => Appends("kDuplicateRow")
     /\ DuplicateColumn => Appends("kDuplicateColumn")
     /\ reductions' # reductions => Recording
     /\ NumReductions' = Len(pushed')
     /\ \A i \in 1..NumReductions' : reductions'[i] \in ReductionType]_vars

\* Two recordings were made, by fixedColAtUpper and by removedFixedCol: the
\* record holds the FixedCol tag twice and the descriptors differ in their
\* fixType.
OneTagPerRecordingWitness ==
  /\ NumReductions = 2
  /\ Len(pushed) = 2
  /\ reductions = <<"kFixedCol", "kFixedCol">>
  /\ pushed[1].reduction.fixType = "UPPER"
  /\ pushed[2].reduction.fixType = "NONBASIC"
====
